---- MODULE Spec2Model ----
(***************************************************************************)
(* Model of the SSE event service (connection registry and event bus) of   *)
(* knowledge-base-web and of the two HTTP handlers of server.js that drive *)
(* it: GET /api/events/:recordId and POST /api/events/:recordId/lane.      *)
(*                                                                         *)
(* A sink is a streamed HTTP response (res).  Every GET request brings a   *)
(* fresh response object, so a sink is registered at most once.  The       *)
(* socket behind a response may be closed at any time, also before the     *)
(* route handler runs (express.static sits in front of the routes and      *)
(* answers asynchronously).                                                *)
(***************************************************************************)
EXTENDS Integers, Sequences, FiniteSets, TLC

\* ---------------------------------------------------------------- bounds
NumSinks == 2
MaxEvents == 4

NumInputLanes == 2      \* the records carry fields for the first lanes only
NumInputSubLanes == 2   \* and for the first sub-lanes of each of them

Sinks == 1..NumSinks
RecordIds == {"rec1", "rec2"}
NoId == "none"

\* ------------------------------------------------- event types (the code)
\* the cases of the webhook's switch
WebhookCases == {"lane_start", "lane_finish", "lane_error", "publish", "done", "progress"}
\* the types the emit helpers and registerConnection put into an event
EventCatalog == WebhookCases \cup {"connected"}
\* what a webhook body may carry as event_type / as data.type
EventTypeInputs == {"lane_start", "progress", "bogus"}
DataTypeInputs == {NoId, "bogus"}

VARIABLES
    vercel,       \* process.env.VERCEL is set
    connections,  \* the Map recordId -> array of res; absent key = not in DOMAIN
    closed,       \* closed[res]: the 'close' event of res has been emitted
    broken,       \* broken[res]: res.write throws
    listeners,    \* listeners[res]: the recordIds of the 'close' handlers attached by res.on
    writes,       \* writes[res]: the res.write calls so far, [event, ok]
    emitted,      \* history: the recordId of every sendEvent call so far
    regAt,        \* history: regAt[res] = position in emitted of its registration's connected event, 0 = never registered
    bcast,        \* the forEach of a sendEvent call in progress (re-entrant specification only)
    result,       \* the last operation and what it answered
    handled,      \* history: handled[res] = how often the 'close' listeners of res have run
    client,       \* client[res]: what the browser page behind res is doing (tracker-sse.js)
    store,        \* the external store as one assembly call sees it: records and fetch outcomes
    asm,          \* the assembleUnifiedContext call: fetches issued and settled, locals, outcome
    call,         \* a getField call: its arguments and what it returned
    limiter,      \* the page's RateLimiter (security.js): the clock, its requests, history of answers
    recovery      \* the page's ErrorRecovery (error-recovery.js): isOnline, retryQueue, requests

vars == <<vercel, connections, closed, broken, listeners, writes, emitted, regAt, bcast, result,
          handled, client, store, asm, call, limiter, recovery>>

\* ------------------------------------------------------------ array helpers
RECURSIVE indexOfFrom(_, _, _)
indexOfFrom(arr, x, i) ==
    IF i > Len(arr) THEN 0
    ELSE IF arr[i] = x THEN i
    ELSE indexOfFrom(arr, x, i + 1)

\* Array.prototype.indexOf, 1-based; 0 stands for -1
indexOf(arr, x) == indexOfFrom(arr, x, 1)

\* Array.prototype.splice(index, 1)
splice1(arr, i) == [k \in 1..(Len(arr) - 1) |-> IF k < i THEN arr[k] ELSE arr[k + 1]]

\* Array.prototype.push
push(arr, x) == Append(arr, x)

\* Map.prototype.has / set / delete
mapHas(m, k) == k \in DOMAIN m
mapSet(m, k, v) == [x \in DOMAIN m \cup {k} |-> IF x = k THEN v ELSE m[x]]
mapDelete(m, k) == [x \in DOMAIN m \ {k} |-> m[x]]

EmptyMap == [x \in {} |-> <<>>]

NoBcast == [active |-> FALSE, id |-> NoId, event |-> [type |-> NoId, n |-> 0],
            idx |-> 0, len |-> 0, live |-> FALSE, inWrite |-> FALSE, snapshot |-> <<>>]


\* no assembly call is running and no store is looked at
NoStore == [primary |-> NoId]
NoAssembly == [status |-> "idle"]
\* no getField call has been made; the page's utilities are not looked at
NoCall == [status |-> "idle"]
NoLimiter == [requests |-> <<>>]
NoRecovery == [retryQueue |-> <<>>]

\* --------------------------------------------------------------- sendEvent
\* res.write(message): the call is recorded; it throws when the sink is broken
resWrite(res, event, w) ==
    [w |-> [w EXCEPT ![res] = Append(@, [event |-> event, ok |-> ~broken[res]])],
     threw |-> broken[res]]

\* a write without the try/catch: the exception leaves the forEach callback
tryWriteUncaught(res, event, w) == resWrite(res, event, w)

\* try { res.write(message) } catch (error) { console.error(...) }
tryWrite(res, event, w) ==
    [w |-> resWrite(res, event, w).w, threw |-> FALSE]

\* clients.forEach(res => ...), run to completion (no re-entrant change of the array);
\* an exception leaving the callback ends the iteration
RECURSIVE forEachWrite(_, _, _, _)
forEachWrite(clients, event, st, k) ==
    IF k > Len(clients) \/ st.threw THEN st
    ELSE forEachWrite(clients, event, tryWrite(clients[k], event, st.w), k + 1)

\* sendEvent without the guard: forEach of undefined is a TypeError
sendEventNoGuard(recordId, event, conns, w) ==
    IF ~mapHas(conns, recordId) THEN [w |-> w, threw |-> TRUE]
    ELSE forEachWrite(conns[recordId], event, [w |-> w, threw |-> FALSE], 1)

\* sendEvent that writes to the first client only
sendEventFirstOnly(recordId, event, conns, w) ==
    IF ~mapHas(conns, recordId) \/ Len(conns[recordId]) = 0 THEN [w |-> w, threw |-> FALSE]
    ELSE tryWrite(conns[recordId][1], event, w)

\* sendEvent that writes to the clients of every id
sendEventEveryId(recordId, event, conns, w) ==
    LET clients == (IF mapHas(conns, "rec1") THEN conns["rec1"] ELSE <<>>)
                   \o (IF mapHas(conns, "rec2") THEN conns["rec2"] ELSE <<>>)
    IN  forEachWrite(clients, event, [w |-> w, threw |-> FALSE], 1)

\* sendEvent(recordId, event): the writes it makes and whether it throws
sendEvent(recordId, event, conns, w) ==
    IF ~mapHas(conns, recordId) \/ Len(conns[recordId]) = 0 THEN [w |-> w, threw |-> FALSE]
    ELSE forEachWrite(conns[recordId], event, [w |-> w, threw |-> FALSE], 1)

\* the type field of the event an emit helper builds; emitProgress spreads
\* the caller's data after type, so a data.type replaces it
emitType(event_type, data_type) ==
    IF event_type = "progress" /\ data_type # NoId THEN data_type ELSE event_type

\* the event of the next sendEvent call; n identifies the call (history)
newEvent(type) == [type |-> type, n |-> Len(emitted) + 1]

\* ------------------------------------------------------ registerConnection
\* the close handler that never deletes the map entry
closeHandlerNoDelete(recordId, res, conns) ==
    IF ~mapHas(conns, recordId) THEN conns
    ELSE LET clients == conns[recordId]
             index == indexOf(clients, res)
         IN  mapSet(conns, recordId, IF index > 0 THEN splice1(clients, index) ELSE clients)

\* the close handler without the index check: splice(-1, 1) removes the last element
closeHandlerNoIndexGuard(recordId, res, conns) ==
    IF ~mapHas(conns, recordId) THEN conns
    ELSE LET clients == conns[recordId]
             index == indexOf(clients, res)
             rest == splice1(clients, IF index > 0 THEN index ELSE Len(clients))
         IN  IF Len(rest) = 0 THEN mapDelete(conns, recordId)
             ELSE mapSet(conns, recordId, rest)

\* the close handler with splice(index): everything from index on is removed
closeHandlerSpliceTail(recordId, res, conns) ==
    IF ~mapHas(conns, recordId) THEN conns
    ELSE LET clients == conns[recordId]
             index == indexOf(clients, res)
             rest == IF index > 0 THEN SubSeq(clients, 1, index - 1) ELSE clients
         IN  IF Len(rest) = 0 THEN mapDelete(conns, recordId)
             ELSE mapSet(conns, recordId, rest)

\* res.on('close', () => {...}) of registerConnection(recordId, res)
closeHandler(recordId, res, conns) ==
    IF ~mapHas(conns, recordId) THEN conns
    ELSE LET clients == conns[recordId]
             index == indexOf(clients, res)
             rest == IF index > 0 THEN splice1(clients, index) ELSE clients
         IN  IF Len(rest) = 0 THEN mapDelete(conns, recordId)
             ELSE mapSet(conns, recordId, rest)

\* emitting 'close' calls the attached listeners in the order of attachment
RECURSIVE emitClose(_, _, _, _)
emitClose(ids, res, conns, k) ==
    IF k > Len(ids) THEN conns
    ELSE emitClose(ids, res, closeHandler(ids[k], res, conns), k + 1)

\* connections after lines 430-433: create the list if absent, push res
pushClient(recordId, res, conns) ==
    LET c1 == IF ~mapHas(conns, recordId) THEN mapSet(conns, recordId, <<>>) ELSE conns
    IN  mapSet(c1, recordId, push(c1[recordId], res))

\* registerConnection that announces before it pushes
registerConnectionAnnounceFirst(recordId, res) ==
    LET ev == newEvent("connected")
        r == sendEvent(recordId, ev, connections, writes)
    IN  /\ connections' = pushClient(recordId, res, connections)
        /\ writes' = r.w
        /\ emitted' = Append(emitted, recordId)
        /\ regAt' = [regAt EXCEPT ![res] = Len(emitted) + 1]
        /\ listeners' = IF r.threw THEN listeners
                        ELSE [listeners EXCEPT ![res] = Append(@, recordId)]
        /\ result' = [op |-> "events", id |-> recordId, type |-> "connected",
                      status |-> IF r.threw THEN "500" ELSE "stream"]

\* registerConnection(recordId, res)
registerConnection(recordId, res) ==
    LET conns == pushClient(recordId, res, connections)
        ev == newEvent("connected")
        r == sendEvent(recordId, ev, conns, writes)
    IN  /\ connections' = conns
        /\ writes' = r.w
        /\ emitted' = Append(emitted, recordId)
        /\ regAt' = [regAt EXCEPT ![res] = Len(emitted) + 1]
        /\ listeners' = IF r.threw THEN listeners
                        ELSE [listeners EXCEPT ![res] = Append(@, recordId)]
        /\ result' = [op |-> "events", id |-> recordId, type |-> "connected",
                      status |-> IF r.threw THEN "500" ELSE "stream"]

\* ------------------------------------------------------------ the handlers
\* Response objects are numbered in the order in which their requests reach
\* the route handler: the next request to reach it carries res = nextSink.
\* A response can close or break before its request reaches the handler.
nextSink == Cardinality({s \in Sinks : regAt[s] # 0}) + 1

\* GET /api/events/:recordId with a fresh response object res
GetEvents(recordId, res) ==
    /\ res = nextSink
    /\ bcast.active => bcast.inWrite
    /\ vercel \/ Len(emitted) < MaxEvents
    /\ IF vercel
       THEN /\ result' = [op |-> "events", id |-> recordId, type |-> NoId, status |-> "501"]
            /\ UNCHANGED <<connections, writes, emitted, regAt, listeners>>
       ELSE registerConnection(recordId, res)
    /\ UNCHANGED <<call, limiter, recovery, handled, client, store, asm, vercel, closed, broken, bcast>>

\* a switch whose default case forwards the event as it came
dispatchForwardAll(recordId, event_type, data_type) ==
    LET ev == newEvent(emitType(event_type, data_type))
        r == sendEvent(recordId, ev, connections, writes)
    IN  [w |-> r.w, threw |-> r.threw, emitted |-> Append(emitted, recordId)]

\* the switch of the webhook: the sendEvent call it makes, if any
dispatch(recordId, event_type, data_type) ==
    IF event_type \in WebhookCases
    THEN LET ev == newEvent(emitType(event_type, data_type))
             r == sendEvent(recordId, ev, connections, writes)
         IN  [w |-> r.w, threw |-> r.threw,
              emitted |-> Append(emitted, recordId)]
    ELSE [w |-> writes, threw |-> FALSE, emitted |-> emitted]

\* handleSSEEvent of the page behind res, for the messages a step has
\* written to res: a done event starts the 10 second timer of the page
handleSSEEvent(res, w, w2) ==
    IF /\ client[res] = "watching"
       /\ ~closed[res]
       /\ \E k \in (Len(w[res]) + 1)..Len(w2[res]) :
             w2[res][k].ok /\ w2[res][k].event.type = "done"
    THEN "timer"
    ELSE client[res]

\* POST /api/events/:recordId/lane
PostLaneEvent(recordId, event_type, data_type) ==
    /\ vercel \/ event_type \notin WebhookCases \/ Len(emitted) < MaxEvents
    /\ data_type # NoId => event_type = "progress"
    /\ IF vercel
       THEN /\ result' = [op |-> "webhook", id |-> recordId, type |-> event_type, status |-> "ok"]
            /\ UNCHANGED <<writes, emitted>>
       ELSE LET d == dispatch(recordId, event_type, data_type)
            IN  /\ writes' = d.w
                /\ emitted' = d.emitted
                /\ result' = [op |-> "webhook", id |-> recordId, type |-> event_type,
                              status |-> IF d.threw THEN "500" ELSE "success"]
    /\ client' = [res \in Sinks |-> handleSSEEvent(res, writes, writes')]
    /\ UNCHANGED <<call, limiter, recovery, handled, store, asm, vercel, connections, closed, broken, listeners, regAt, bcast>>

\* the socket of res closes: 'close' is emitted once, its listeners run
SinkClose(res) ==
    /\ res <= nextSink
    /\ bcast.active => bcast.inWrite
    /\ ~closed[res]
    /\ closed' = [closed EXCEPT ![res] = TRUE]
    /\ connections' = emitClose(listeners[res], res, connections, 1)
    /\ bcast' = IF bcast.active
                THEN [bcast EXCEPT !.live = @ /\ mapHas(connections', bcast.id)]
                ELSE bcast
    /\ handled' = [handled EXCEPT ![res] = IF listeners[res] # <<>> THEN @ + 1 ELSE @]
    /\ UNCHANGED <<call, limiter, recovery, client, store, asm, vercel, broken, listeners, writes, emitted, regAt, result>>

\* the writes of res start to throw
SinkBreak(res) ==
    /\ res <= nextSink
    /\ ~broken[res]
    /\ broken' = [broken EXCEPT ![res] = TRUE]
    /\ UNCHANGED <<call, limiter, recovery, handled, client, store, asm, vercel, connections, closed, listeners, writes, emitted, regAt, bcast, result>>

Init ==
    /\ vercel \in BOOLEAN
    /\ connections = EmptyMap
    /\ closed = [s \in Sinks |-> FALSE]
    /\ broken = [s \in Sinks |-> FALSE]
    /\ listeners = [s \in Sinks |-> <<>>]
    /\ writes = [s \in Sinks |-> <<>>]
    /\ emitted = <<>>
    /\ regAt = [s \in Sinks |-> 0]
    /\ bcast = NoBcast
    /\ result = [op |-> "init", id |-> NoId, type |-> NoId, status |-> NoId]
    /\ handled = [s \in Sinks |-> 0]
    /\ client = [s \in Sinks |-> "watching"]
    /\ store = NoStore
    /\ asm = NoAssembly
    /\ call = NoCall
    /\ limiter = NoLimiter
    /\ recovery = NoRecovery

Next ==
    \/ \E recordId \in RecordIds, res \in Sinks : GetEvents(recordId, res)
    \/ \E recordId \in RecordIds, event_type \in EventTypeInputs, data_type \in DataTypeInputs :
          PostLaneEvent(recordId, event_type, data_type)
    \/ \E res \in Sinks : SinkClose(res)
    \/ \E res \in Sinks : SinkBreak(res)

Spec == Init /\ [][Next]_vars

\* ---------------------------------------------------------- JavaScript values
\* Field values are tagged: undefined, null, boolean, string, array, object.
Undef == [t |-> "undefined"]
Null == [t |-> "null"]
Bool(b) == [t |-> "boolean", b |-> b]
Str(x) == [t |-> "string", s |-> x]
List(x) == [t |-> "array", items |-> x]
Obj(x) == [t |-> "object", props |-> x]
Num(n) == [t |-> "number", n |-> n]
\* a string given character by character (as character codes)
Chars(x) == [t |-> "string", chars |-> x]

\* ToBoolean
truthy(x) ==
    CASE x.t = "undefined" -> FALSE
      [] x.t = "null" -> FALSE
      [] x.t = "boolean" -> x.b
      [] x.t = "string" -> IF "chars" \in DOMAIN x THEN x.chars # <<>> ELSE x.s # ""
      [] OTHER -> TRUE

\* a || b
or(a, b) == IF truthy(a) THEN a ELSE b

\* x.length > 0 (false when x has no length)
lengthPositive(x) ==
    CASE x.t = "string" -> x.s # ""
      [] x.t = "array" -> Len(x.items) > 0
      [] OTHER -> FALSE

\* x.length === 0
lengthZero(x) ==
    CASE x.t = "string" -> x.s = ""
      [] x.t = "array" -> Len(x.items) = 0
      [] OTHER -> FALSE

\* fields[name]: undefined when the record has no such field
get(fields, name) == IF name \in DOMAIN fields THEN fields[name] ELSE Undef

\* ------------------------------------------------------- extractActiveLanes
lanes == <<"A", "B", "C", "D", "E", "F", "G", "H", "I", "J">>
subLanes == <<"1.1", "2.1", "3.1", "4.1", "5.1">>

\* the keys of the branchToggles object
branchToggleField(lane) ==
    CASE lane = "B" -> "WF - Branch B (full) - on/off"
      [] lane = "H" -> "WF - Branch H -- on/off"
      [] OTHER -> "WF - Branch " \o lane \o " - on/off"

\* a toggle that counts as on unless it is false
branchEnabledUnlessFalse(initiator, lane) ==
    get(initiator.fields, branchToggleField(lane)) # Bool(FALSE)

\* if (branchEnabled)
branchEnabled(initiator, lane) ==
    truthy(get(initiator.fields, branchToggleField(lane)))

\* const laneValue = initiator.fields[laneFieldName] || workflow.fields[laneKey]
laneValue(workflow, initiator, laneKey) ==
    or(get(initiator.fields, "WF - " \o laneKey), get(workflow.fields, laneKey))

\* the two nested for loops, from lane i and sub-lane j on
RECURSIVE lanesFrom(_, _, _, _, _)
lanesFrom(workflow, initiator, i, j, activeLanes) ==
    IF i > Len(lanes) THEN activeLanes
    ELSE IF ~branchEnabled(initiator, lanes[i]) \/ j > Len(subLanes)
    THEN lanesFrom(workflow, initiator, i + 1, 1, activeLanes)
    ELSE LET laneKey == lanes[i] \o subLanes[j]
             v == laneValue(workflow, initiator, laneKey)
         IN  lanesFrom(workflow, initiator, i, j + 1,
                       IF truthy(v) /\ lengthPositive(v)
                       THEN Append(activeLanes, laneKey) ELSE activeLanes)

\* the loops nested the other way round: sub-lane j outside, lane i inside
RECURSIVE lanesFromSubMajor(_, _, _, _, _)
lanesFromSubMajor(workflow, initiator, i, j, activeLanes) ==
    IF j > Len(subLanes) THEN activeLanes
    ELSE IF i > Len(lanes)
    THEN lanesFromSubMajor(workflow, initiator, 1, j + 1, activeLanes)
    ELSE LET laneKey == lanes[i] \o subLanes[j]
             v == laneValue(workflow, initiator, laneKey)
         IN  lanesFromSubMajor(workflow, initiator, i + 1, j,
                       IF branchEnabled(initiator, lanes[i]) /\ truthy(v) /\ lengthPositive(v)
                       THEN Append(activeLanes, laneKey) ELSE activeLanes)

extractActiveLanesSubMajor(workflow, initiator) ==
    IF ~truthy(workflow) THEN <<>>
    ELSE lanesFromSubMajor(workflow, initiator, 1, 1, <<>>)

\* a missing workflow read as a workflow without fields
extractActiveLanesOptionalWorkflow(workflow, initiator) ==
    lanesFrom(IF truthy(workflow) THEN workflow ELSE [fields |-> <<>>], initiator, 1, 1, <<>>)

\* extractActiveLanes(workflow, initiator)
extractActiveLanes(workflow, initiator) ==
    IF ~truthy(workflow) THEN <<>>
    ELSE lanesFrom(workflow, initiator, 1, 1, <<>>)

\* ------------------------------------------------ the records a planning sees
InputLanes == {lanes[i] : i \in 1..NumInputLanes}
InputLaneKeys == {lanes[i] \o subLanes[j] : i \in 1..NumInputLanes, j \in 1..NumInputSubLanes}
ToggleValues == {Undef, Bool(TRUE)}
InitiatorPromptValues == {Undef, List(<<>>), List(<<"recPrompt">>)}
WorkflowPromptValues == {Undef, List(<<"recPrompt">>)}

\* a record as the store returns it
Record(id, fields) == [t |-> "object", id |-> id, fields |-> fields]

\* the outcomes of base(table).find(id): the record, or an error with a message
Found(record) == [ok |-> TRUE, record |-> record]
NotFound == [ok |-> FALSE, message |-> "NOT_FOUND"]

InitiatorLaneFields ==
    {tg @@ pr : tg \in [{branchToggleField(l) : l \in InputLanes} -> ToggleValues],
                pr \in [{"WF - " \o k : k \in InputLaneKeys} -> InitiatorPromptValues]}

WorkflowLaneFields == [InputLaneKeys -> WorkflowPromptValues]

\* extractActiveLanes applied to a primary record and a workflow record
PlanLanes ==
    /\ asm.status = "idle"
    /\ asm' = [status |-> "planned",
               lanes |-> extractActiveLanes(store.workflow.record, store.primary.record)]
    /\ UNCHANGED <<call, limiter, recovery, store, handled, client, vercel, connections, closed, broken, listeners,
                   writes, emitted, regAt, bcast, result>>

InitLanes ==
    /\ vercel = FALSE
    /\ connections = EmptyMap
    /\ closed = [s \in Sinks |-> FALSE]
    /\ broken = [s \in Sinks |-> FALSE]
    /\ listeners = [s \in Sinks |-> <<>>]
    /\ writes = [s \in Sinks |-> <<>>]
    /\ emitted = <<>>
    /\ regAt = [s \in Sinks |-> 0]
    /\ bcast = NoBcast
    /\ result = [op |-> "init", id |-> NoId, type |-> NoId, status |-> NoId]
    /\ handled = [s \in Sinks |-> 0]
    /\ client = [s \in Sinks |-> "watching"]
    /\ asm = NoAssembly
    /\ call = NoCall
    /\ limiter = NoLimiter
    /\ recovery = NoRecovery
    /\ \E f \in InitiatorLaneFields, w \in WorkflowLaneFields :
          store = [primary |-> Found(Record("rec123", f)),
                   workflow |-> Found(Record("recWorkflow", w))]

NextLanes == PlanLanes

SpecLanes == InitLanes /\ [][NextLanes]_vars

\* ------------------------------------------------- assembleUnifiedContext
\* A string that holds the JSON text of value x; any other string is not JSON.
Json(x) == [t |-> "string", s |-> "json", of |-> x]

\* parseJSON: null for a falsy argument and for text that does not parse
parseJSON(jsonString) ==
    IF ~truthy(jsonString) THEN Null
    ELSE IF "of" \in DOMAIN jsonString THEN jsonString.of
    ELSE Null

\* the fields of a record, none for null
fieldsOf(record) == IF truthy(record) THEN record.fields ELSE <<>>

\* validators.map(v => ({type: 'validator', name: v.name, value: v.value}))
validatorRules(validators) ==
    [k \in DOMAIN validators.items |->
        Obj([type |-> "validator", name |-> validators.items[k].props.name,
             value |-> validators.items[k].props.value])]

\* rules.push(...more) that leaves out a rule the list already holds
RECURSIVE pushNew(_, _)
pushNew(rules, more) ==
    IF more = <<>> THEN rules
    ELSE pushNew(IF \E k \in DOMAIN rules : rules[k] = Head(more)
                 THEN rules ELSE Append(rules, Head(more)), Tail(more))

\* extractRules that drops a workflow rule equal to a validator rule
extractRulesDeduplicated(workflow, contentType) ==
    LET validators == parseJSON(get(fieldsOf(contentType), "Validators (JSON)"))
        workflowRules == parseJSON(get(fieldsOf(workflow), "Rules (JSON)"))
        fromContentType == IF truthy(validators) THEN validatorRules(validators) ELSE <<>>
        fromWorkflow == IF truthy(workflowRules) THEN workflowRules.items ELSE <<>>
    IN  IF truthy(validators) /\ validators.t # "array"
        THEN [threw |-> TRUE, message |-> "validators.map is not a function"]
        ELSE IF truthy(workflowRules) /\ workflowRules.t # "array"
        THEN [threw |-> TRUE, message |-> "workflowRules is not iterable"]
        ELSE [threw |-> FALSE, rules |-> pushNew(fromContentType, fromWorkflow)]

\* extractRules(workflow, contentType): the rules, or the TypeError of a
\* .map or a spread applied to a value that is not a list. (A parsed string
\* would spread into its characters; the stored texts of this model parse to
\* a list or to an object.)
extractRules(workflow, contentType) ==
    LET validators == parseJSON(get(fieldsOf(contentType), "Validators (JSON)"))
        workflowRules == parseJSON(get(fieldsOf(workflow), "Rules (JSON)"))
        fromContentType == IF truthy(validators) THEN validatorRules(validators) ELSE <<>>
        fromWorkflow == IF truthy(workflowRules) THEN workflowRules.items ELSE <<>>
    IN  IF truthy(validators) /\ validators.t # "array"
        THEN [threw |-> TRUE, message |-> "validators.map is not a function"]
        ELSE IF truthy(workflowRules) /\ workflowRules.t # "array"
        THEN [threw |-> TRUE, message |-> "workflowRules is not iterable"]
        ELSE [threw |-> FALSE, rules |-> fromContentType \o fromWorkflow]

\* buildContentTypeContract(contentType)
buildContentTypeContract(contentType) ==
    IF ~truthy(contentType)
    THEN [id |-> Null, name |-> Str("Unknown"), schema_version |-> Str("1.0.0"),
          output_contract |-> [fields |-> List(<<>>)]]
    ELSE [id |-> contentType.id,
          name |-> or(get(contentType.fields, "Name"), Str("Unknown")),
          schema_version |-> or(get(contentType.fields, "Schema Version"), Str("1.0.0")),
          output_contract |->
             [destination_table |-> or(get(contentType.fields, "Destination Table"), Str("Articles")),
              fields |-> or(parseJSON(get(contentType.fields, "Fields Schema (JSON)")), List(<<>>)),
              validators |-> or(parseJSON(get(contentType.fields, "Validators (JSON)")), List(<<>>)),
              post_processing |-> or(parseJSON(get(contentType.fields, "Post Processing (JSON)")), List(<<>>))]]

\* buildEntityContext(entity, initiator); the bundle keeps the three
\* knowledge bases in order between its opening and closing tag
buildEntityContext(entity, initiator) ==
    IF ~truthy(entity)
    THEN [id |-> Null, name |-> Str("Unknown"), kb_xml_bundle |-> Str(""), app_context |-> <<>>]
    ELSE [id |-> entity.id,
          name |-> or(get(entity.fields, "Name"), Str("Unknown")),
          kb_xml_bundle |->
             Str("<kb>" \o or(get(initiator.fields, "Brand Knowledgebase"), Str("")).s
                        \o or(get(initiator.fields, "Audience Knowledgebase"), Str("")).s
                        \o or(get(initiator.fields, "Marketing Knowledgebase"), Str("")).s
                        \o "</kb>"),
          app_context |->
             [description |-> or(get(entity.fields, "Description"), Str("")),
              links |-> or(parseJSON(get(entity.fields, "Links (JSON)")), List(<<>>)),
              capabilities |-> or(parseJSON(get(entity.fields, "Capabilities (JSON)")), List(<<>>))]]

\* the readings of the clock at the moment the context is built
Clock == {"2025-10-24T10:00:00.000Z", "2025-10-24T10:00:01.000Z"}

\* the object literal of step 9 without the entity section when there is no
\* entity record
unifiedContextSparse(recordId, now, initiator, workflow, entity, contentType, rules) ==
    LET full == [initiator_id |-> recordId, timestamp |-> Str(now),
                 content_type |-> buildContentTypeContract(contentType),
                 entity |-> buildEntityContext(entity, initiator),
                 audience |-> <<>>, research |-> <<>>, tools |-> <<>>, platform |-> <<>>,
                 lane_plan |-> <<>>, prior_steps |-> <<>>, rules |-> rules, context |-> <<>>]
    IN  IF truthy(entity) THEN full
        ELSE [k \in DOMAIN full \ {"entity"} |-> full[k]]

\* the object literal of step 9 for a primary record without references,
\* tools and a research cache; now is the clock reading of new Date()
unifiedContext(recordId, now, initiator, workflow, entity, contentType, rules) ==
    [initiator_id |-> recordId,
     timestamp |-> Str(now),
     content_type |-> buildContentTypeContract(contentType),
     entity |-> buildEntityContext(entity, initiator),
     audience |-> [kb_xml |-> or(get(initiator.fields, "Audience Knowledgebase"), Str("")),
                   personas |-> or(get(initiator.fields, "Personas"), List(<<>>)),
                   priority |-> or(get(initiator.fields, "Audience Priority"), [t |-> "number", n |-> 5])],
     research |-> [sources |-> or(get(initiator.fields, "Research Sources"), List(<<>>)),
                   normalized |-> <<>>, cache_refs |-> <<>>],
     tools |-> <<>>,
     platform |-> [provider |-> "openai", model |-> "gpt-4"],
     lane_plan |-> LET activeLanes == extractActiveLanes(workflow, initiator)
                   IN  [k \in DOMAIN activeLanes |-> [lane |-> activeLanes[k], enabled |-> TRUE]],
     prior_steps |-> <<>>,
     rules |-> rules,
     context |-> [user_input |-> [goal |-> get(initiator.fields, "Whats Your Goal?"),
                                  brief |-> get(initiator.fields, "What are you imagining? (From Initiator Table)"),
                                  audience |-> get(initiator.fields, "Audience Name"),
                                  apps |-> or(get(initiator.fields, "Apps"), List(<<>>))],
                  personalization |-> [reading_level |-> or(get(initiator.fields, "Reading Level"), Str("professional")),
                                       tone |-> or(get(initiator.fields, "Tone"), Str("informative"))],
                  tags |-> or(get(initiator.fields, "Tags"), List(<<>>))]]

\* the store calls of one assembly, in the order of the code's steps 1 to 4
FetchOrder == <<"initiator", "workflow", "entity", "contentType">>
LinkedFetches == {"workflow", "entity", "contentType"}
Pending == [t |-> "pending"]

\* the field of the primary record that links each record
linkField(f) ==
    CASE f = "workflow" -> "Premade AI Workflow (Initiator link to WF Table)"
      [] f = "entity" -> "What Entity Are We Creating Content On Behalf of? (Initiator Table link to entities table)"
      [] f = "contentType" -> "Content Type"

\* the outcome the store has for a fetch
outcomeOf(f) == IF f = "initiator" THEN store.primary ELSE store[f]

HasEntry(op, f) == \E k \in DOMAIN asm.log : asm.log[k] = [op |-> op, f |-> f]
Issued(f) == HasEntry("issue", f)
Settled(f) == HasEntry("settle", f)
Skipped(f) == HasEntry("skip", f)

\* if (!ids || ids.length === 0) return null
noLink(initiator, f) ==
    LET ids == get(initiator.fields, linkField(f))
    IN  ~truthy(ids) \/ lengthZero(ids)

\* The calls made once fetch number n has settled, had the three linked
\* fetches been started together after the primary record.
callsAfterTogether(initiator, n) ==
    IF n # 1 THEN <<>>
    ELSE [k \in 1..3 |-> [op |-> IF noLink(initiator, FetchOrder[k + 1]) THEN "skip" ELSE "issue",
                          f |-> FetchOrder[k + 1]]]

\* The calls made once fetch number n has settled: each following fetch
\* function is called in turn; one without a link returns null and the next is
\* called, one with a link calls the store and the function waits for it.
RECURSIVE callsAfter(_, _)
callsAfter(initiator, n) ==
    IF n >= Len(FetchOrder) THEN <<>>
    ELSE IF noLink(initiator, FetchOrder[n + 1])
    THEN <<[op |-> "skip", f |-> FetchOrder[n + 1]]>> \o callsAfter(initiator, n + 1)
    ELSE <<[op |-> "issue", f |-> FetchOrder[n + 1]]>>

Position(f) == CHOOSE n \in DOMAIN FetchOrder : FetchOrder[n] = f

\* new Error(`Failed to assemble context: ${error.message}`)
wrap(message) == "Failed to assemble context: " \o message

\* assembleUnifiedContext(recordId) up to the store call for the primary record
Assemble(recordId) ==
    /\ asm.status = "idle"
    /\ asm' = [status |-> "running", recordId |-> recordId,
               log |-> <<[op |-> "issue", f |-> "initiator"]>>,
               got |-> [f \in {FetchOrder[n] : n \in DOMAIN FetchOrder} |-> Pending]]
    /\ UNCHANGED <<call, limiter, recovery, store, handled, client, vercel, connections, closed, broken, listeners,
                   writes, emitted, regAt, bcast, result>>

\* The store answers fetch f and the function runs on to its next store call
\* or to its end. A failed primary fetch is rethrown and wrapped; a failed
\* linked fetch is caught and gives null.
Settle(f, now) ==
    /\ asm.status = "running"
    /\ Issued(f) /\ ~Settled(f)
    /\ LET outcome == outcomeOf(f)
           got == [asm.got EXCEPT ![f] = IF outcome.ok THEN outcome.record ELSE Null]
           settled == Append(asm.log, [op |-> "settle", f |-> f])
       IN  IF f = "initiator" /\ ~outcome.ok
           THEN asm' = [status |-> "rejected", recordId |-> asm.recordId, log |-> settled,
                        got |-> asm.got, error |-> wrap(outcome.message)]
           ELSE LET calls == callsAfter(got.initiator, Position(f))
                    log == settled \o calls
                    left == {g \in LinkedFetches :
                                \A k \in DOMAIN log : log[k] \notin {[op |-> "settle", f |-> g],
                                                                    [op |-> "skip", f |-> g]}}
                    all == [g \in DOMAIN got |-> IF got[g] = Pending /\ g \notin left THEN Null ELSE got[g]]
                    rules == extractRules(all.workflow, all.contentType)
                IN  IF left # {}
                    THEN asm' = [asm EXCEPT !.log = log, !.got = all]
                    ELSE IF rules.threw
                    THEN asm' = [status |-> "rejected", recordId |-> asm.recordId,
                                 log |-> Append(log, [op |-> "compose", f |-> "context"]),
                                 got |-> all, error |-> wrap(rules.message)]
                    ELSE asm' = [status |-> "resolved", recordId |-> asm.recordId,
                                 log |-> Append(log, [op |-> "compose", f |-> "context"]),
                                 got |-> all,
                                 context |-> unifiedContext(asm.recordId, now, all.initiator, all.workflow,
                                                            all.entity, all.contentType, rules.rules)]
    /\ UNCHANGED <<call, limiter, recovery, store, handled, client, vercel, connections, closed, broken, listeners,
                   writes, emitted, regAt, bcast, result>>

\* what the records of an assembly may hold
LinkValues(id) == {Undef, List(<<id>>)}
JsonValues == {Undef, Str("{oops"),
               Json(List(<<>>)),
               Json(List(<<Obj([type |-> "validator", name |-> "tone", value |-> "formal"])>>)),
               Json(List(<<Obj([type |-> "style", name |-> "voice", value |-> "active"])>>)),
               Json(Obj([name |-> "tone"]))}

AssemblyInitiators ==
    {Record("rec123",
            ("Premade AI Workflow (Initiator link to WF Table)" :> w) @@
            ("What Entity Are We Creating Content On Behalf of? (Initiator Table link to entities table)" :> e) @@
            ("Content Type" :> c) @@
            ("WF - Branch A - on/off" :> tg) @@
            ("WF - A1.1" :> pr)) :
        w \in LinkValues("recWorkflow"), e \in LinkValues("recEntity"),
        c \in LinkValues("recContentType"), tg \in ToggleValues,
        pr \in {Undef, List(<<"recPrompt">>)}}

AssemblyWorkflows ==
    {Record("recWorkflow", ("A1.1" :> pr) @@ ("Rules (JSON)" :> r)) :
        pr \in WorkflowPromptValues, r \in JsonValues}

AssemblyEntities == {Record("recEntity", ("Name" :> Str("Acme")))}

AssemblyContentTypes ==
    {Record("recContentType", ("Name" :> Str("Blog Post")) @@ ("Destination Table" :> d) @@
                              ("Validators (JSON)" :> v)) :
        d \in {Undef, Str("Posts")}, v \in JsonValues}

InitAssembly ==
    /\ vercel = FALSE
    /\ connections = EmptyMap
    /\ closed = [s \in Sinks |-> FALSE]
    /\ broken = [s \in Sinks |-> FALSE]
    /\ listeners = [s \in Sinks |-> <<>>]
    /\ writes = [s \in Sinks |-> <<>>]
    /\ emitted = <<>>
    /\ regAt = [s \in Sinks |-> 0]
    /\ bcast = NoBcast
    /\ result = [op |-> "init", id |-> NoId, type |-> NoId, status |-> NoId]
    /\ handled = [s \in Sinks |-> 0]
    /\ client = [s \in Sinks |-> "watching"]
    /\ asm = NoAssembly
    /\ call = NoCall
    /\ limiter = NoLimiter
    /\ recovery = NoRecovery
    /\ \E p \in {NotFound} \cup {Found(r) : r \in AssemblyInitiators},
          w \in {NotFound} \cup {Found(r) : r \in AssemblyWorkflows},
          e \in {NotFound} \cup {Found(r) : r \in AssemblyEntities},
          c \in {NotFound} \cup {Found(r) : r \in AssemblyContentTypes} :
          store = [primary |-> p, workflow |-> w, entity |-> e, contentType |-> c]

NextAssembly ==
    \/ Assemble("rec123")
    \/ \E f \in {FetchOrder[n] : n \in DOMAIN FetchOrder}, now \in Clock : Settle(f, now)

SpecAssembly == InitAssembly /\ [][NextAssembly]_vars

\* ------------------------------------------------------------ emitLaneFinish
PreviewLength == 200

\* String.prototype.substring(0, end)
substring0(x, end) == Chars(SubSeq(x.chars, 1, IF Len(x.chars) < end THEN Len(x.chars) ELSE end))

\* JSON.stringify followed by the page's JSON.parse: a key whose value is
\* undefined is not in the decoded body
decoded(event) == [k \in {k \in DOMAIN event : k \in {"type", "n"} \/ event[k] # Undef} |-> event[k]]

\* emitLaneFinish that sends the whole output
emitLaneFinishWholeOutput(lane, output, eval_score) ==
    [type |-> "lane_finish", n |-> Len(emitted) + 1,
     lane |-> lane,
     output_preview |-> IF truthy(output) THEN output ELSE Chars(<<>>),
     eval |-> IF truthy(eval_score) THEN Obj([score |-> eval_score]) ELSE Null]

\* the event emitLaneFinish(recordId, lane, output, eval_score) hands to
\* sendEvent (without its timestamp and its message text)
emitLaneFinish(lane, output, eval_score) ==
    [type |-> "lane_finish", n |-> Len(emitted) + 1,
     lane |-> lane,
     output_preview |-> IF truthy(output) THEN substring0(output, PreviewLength) ELSE Chars(<<>>),
     eval |-> IF truthy(eval_score) THEN Obj([score |-> eval_score]) ELSE Null]

\* POST /api/events/:recordId/lane with event_type lane_finish
PostLaneFinish(recordId, lane, output, eval_score) ==
    /\ vercel \/ Len(emitted) < MaxEvents
    /\ IF vercel
       THEN /\ result' = [op |-> "webhook", id |-> recordId, type |-> "lane_finish", status |-> "ok",
                          lane |-> lane, output |-> output]
            /\ UNCHANGED <<writes, emitted>>
       ELSE LET r == sendEvent(recordId, decoded(emitLaneFinish(lane, output, eval_score)),
                               connections, writes)
            IN  /\ writes' = r.w
                /\ emitted' = Append(emitted, recordId)
                /\ result' = [op |-> "webhook", id |-> recordId, type |-> "lane_finish",
                              status |-> IF r.threw THEN "500" ELSE "success",
                              lane |-> lane, output |-> output]
    /\ UNCHANGED <<call, limiter, recovery, handled, client, store, asm, vercel, connections,
                   closed, broken, listeners, regAt, bcast>>

\* what a lane_finish webhook may carry
LaneFinishBodies ==
    {[lane |-> Str("A1.1"), output |-> Chars(<<104, 101, 108, 108, 111>>), eval_score |-> Num(8)],
     [lane |-> Str("A1.1"), output |-> Chars([i \in 1..(PreviewLength + 1) |-> 97 + (i % 26)]),
      eval_score |-> Num(8)],
     [lane |-> Str("A1.1"), output |-> Undef, eval_score |-> Undef],
     [lane |-> Undef, output |-> Undef, eval_score |-> Undef]}

NextLaneFinish ==
    \/ \E recordId \in RecordIds, res \in Sinks : GetEvents(recordId, res)
    \/ \E recordId \in RecordIds, body \in LaneFinishBodies :
          PostLaneFinish(recordId, body.lane, body.output, body.eval_score)
    \/ \E res \in Sinks : SinkClose(res)
    \/ \E res \in Sinks : SinkBreak(res)

SpecLaneFinish == Init /\ [][NextLaneFinish]_vars

\* ----------------------------------------------------------------- getField
MaxAliases == 2

\* the names an object inherits from Object.prototype (one of them)
ObjectPrototypeKeys == {"constructor"}

\* Object.prototype.hasOwnProperty.call(fields, name)
hasOwnProperty(fields, name) == name \in DOMAIN fields.props

\* fields[name]: the own value, else the inherited one, else undefined
member(fields, name) ==
    IF hasOwnProperty(fields, name) THEN fields.props[name]
    ELSE IF name \in ObjectPrototypeKeys THEN [t |-> "function"]
    ELSE Undef

\* x != null
notNullish(x) == x.t \notin {"null", "undefined"}

\* the loop that returns on a truthy value
RECURSIVE firstTruthy(_, _, _)
firstTruthy(fields, aliasList, k) ==
    IF k > Len(aliasList) THEN Undef
    ELSE IF truthy(member(fields, aliasList[k])) THEN member(fields, aliasList[k])
    ELSE firstTruthy(fields, aliasList, k + 1)

\* for (const name of aliasList) { if (hasOwnProperty && != null) return fields[name] }
RECURSIVE firstMatch(_, _, _)
firstMatch(fields, aliasList, k) ==
    IF k > Len(aliasList) THEN Undef
    ELSE IF hasOwnProperty(fields, aliasList[k]) /\ notNullish(member(fields, aliasList[k]))
    THEN member(fields, aliasList[k])
    ELSE firstMatch(fields, aliasList, k + 1)

\* getField that tests fields[name] for truthiness
getFieldTruthy(fields, aliasList) ==
    IF ~truthy(fields) \/ ~truthy(aliasList) \/ aliasList.t # "array" THEN Undef
    ELSE firstTruthy(fields, aliasList.items, 1)

\* getField(fields, aliasList)
getField(fields, aliasList) ==
    IF ~truthy(fields) \/ ~truthy(aliasList) \/ aliasList.t # "array" THEN Undef
    ELSE firstMatch(fields, aliasList.items, 1)

\* the arguments of a call
OwnNames == {"Workflow", "Workflow Record Id"}
FieldValues == {Undef, Null, Num(0), Bool(FALSE), Str(""), Str("recWorkflow")}
FieldsInputs ==
    {Undef, Null} \cup {Obj(f) : f \in UNION {[K -> FieldValues] : K \in SUBSET OwnNames}}
AliasNames == OwnNames \cup ObjectPrototypeKeys
AliasLists == UNION {[1..n -> AliasNames] : n \in 0..MaxAliases}
AliasInputs == {Undef, Str("Workflow")} \cup {List(l) : l \in AliasLists}

\* a call of getField returns
GetField ==
    /\ call.status = "called"
    /\ call' = [call EXCEPT !.status = "returned",
                            !.value = getField(call.fields, call.aliasList)]
    /\ UNCHANGED <<limiter, recovery, store, asm, handled, client, vercel, connections, closed,
                   broken, listeners, writes, emitted, regAt, bcast, result>>

InitGetField ==
    /\ vercel = FALSE
    /\ connections = EmptyMap
    /\ closed = [s \in Sinks |-> FALSE]
    /\ broken = [s \in Sinks |-> FALSE]
    /\ listeners = [s \in Sinks |-> <<>>]
    /\ writes = [s \in Sinks |-> <<>>]
    /\ emitted = <<>>
    /\ regAt = [s \in Sinks |-> 0]
    /\ bcast = NoBcast
    /\ result = [op |-> "init", id |-> NoId, type |-> NoId, status |-> NoId]
    /\ handled = [s \in Sinks |-> 0]
    /\ client = [s \in Sinks |-> "watching"]
    /\ store = NoStore
    /\ asm = NoAssembly
    /\ limiter = NoLimiter
    /\ recovery = NoRecovery
    /\ \E fields \in FieldsInputs, aliasList \in AliasInputs :
          call = [status |-> "called", fields |-> fields, aliasList |-> aliasList, value |-> Undef]

NextGetField == GetField

SpecGetField == InitGetField /\ [][NextGetField]_vars

\* -------------------------------------------------------------- RateLimiter
\* window.rateLimiter = new RateLimiter(10, 60000)
maxRequests == 10
windowMs == 60000

MaxCalls == 12          \* isAllowed calls in a run
MaxTicks == 2           \* clock readings after the first
TickMs == windowMs \div 2   \* the clock is read in steps of half a window

LimiterKeys == {"/api/requests", "/api/schema"}

\* this.requests.filter(req => req.timestamp > windowStart && req.key === key)
recent(requests, key, now) ==
    SelectSeq(requests, LAMBDA req : req.timestamp > now - windowMs /\ req.key = key)

\* isAllowed(key) at clock reading now: the new this.requests and the answer
isAllowed(requests, key, now) ==
    LET kept == recent(requests, key, now)
    IN  IF Len(kept) >= maxRequests
        THEN [requests |-> kept, answer |-> FALSE]
        ELSE [requests |-> Append(kept, [key |-> key, timestamp |-> now]), answer |-> TRUE]

\* a call of window.rateLimiter.isAllowed(key), as secureFetch makes it
IsAllowed(key) ==
    /\ limiter.calls < MaxCalls
    /\ LET r == isAllowed(limiter.requests, key, limiter.now)
       IN  limiter' = [now |-> limiter.now,
                       requests |-> r.requests,
                       granted |-> IF r.answer
                                   THEN Append(limiter.granted, [key |-> key, timestamp |-> limiter.now])
                                   ELSE limiter.granted,
                       calls |-> limiter.calls + 1,
                       answer |-> r.answer]
    /\ UNCHANGED <<call, recovery, store, asm, handled, client, vercel, connections, closed,
                   broken, listeners, writes, emitted, regAt, bcast, result>>

\* time passes
Tick ==
    /\ limiter.now < MaxTicks * TickMs
    /\ limiter' = [limiter EXCEPT !.now = @ + TickMs]
    /\ UNCHANGED <<call, recovery, store, asm, handled, client, vercel, connections, closed,
                   broken, listeners, writes, emitted, regAt, bcast, result>>

InitLimiter ==
    /\ vercel = FALSE
    /\ connections = EmptyMap
    /\ closed = [s \in Sinks |-> FALSE]
    /\ broken = [s \in Sinks |-> FALSE]
    /\ listeners = [s \in Sinks |-> <<>>]
    /\ writes = [s \in Sinks |-> <<>>]
    /\ emitted = <<>>
    /\ regAt = [s \in Sinks |-> 0]
    /\ bcast = NoBcast
    /\ result = [op |-> "init", id |-> NoId, type |-> NoId, status |-> NoId]
    /\ handled = [s \in Sinks |-> 0]
    /\ client = [s \in Sinks |-> "watching"]
    /\ store = NoStore
    /\ asm = NoAssembly
    /\ call = NoCall
    /\ recovery = NoRecovery
    /\ limiter = [now |-> 0, requests |-> <<>>, granted |-> <<>>, calls |-> 0, answer |-> FALSE]

NextLimiter ==
    \/ \E key \in LimiterKeys : IsAllowed(key)
    \/ Tick

SpecLimiter == InitLimiter /\ [][NextLimiter]_vars

\* ------------------------------------------------------------ ErrorRecovery
\* window.errorRecovery = new ErrorRecovery(); recovery holds isOnline, the
\* retryQueue, the fetchWithRetry calls made so far (calls) and the
\* processRetryQueue loops started so far (loops).
maxRetries == 3

MaxFetches == 1         \* fetchWithRetry calls of the page in a run
MaxQueued == 2          \* queueForRetry calls in a run

Urls == {"/api/requests", "/api/schema"}

\* a call has settled once its promise is resolved or rejected
settled(c) == c.at \in {"resolved", "rejected"}

\* the catch block of fetchWithRetry: sleep before the next attempt, or
\* leave the loop after the last one and throw lastError
caught(c) ==
    IF c.attempt < maxRetries
    THEN [c EXCEPT !.at = "sleep"]
    ELSE [c EXCEPT !.at = "rejected"]

\* fetchWithRetry(url) up to its first await, called by the page (loop = 0)
\* or by the processRetryQueue loop number loop
fetchWithRetry(url, loop, isOnline) ==
    LET c == [url |-> url, attempt |-> 0, at |-> "fetch", offline |-> ~isOnline,
              fetches |-> 0, loop |-> loop]
    IN  IF ~isOnline
        THEN caught(c)
        ELSE [c EXCEPT !.fetches = 1]

\* processRetryQueue(): nothing on an empty queue; otherwise the queue is
\* copied and emptied, and the loop calls fetchWithRetry for its first item
processRetryQueue(r) ==
    IF r.retryQueue = <<>>
    THEN r
    ELSE [r EXCEPT !.retryQueue = <<>>,
                   !.loops = Append(@, [rest |-> Tail(r.retryQueue)]),
                   !.calls = Append(@, fetchWithRetry(Head(r.retryQueue).url,
                                                      Len(r.loops) + 1, r.isOnline))]

RecoveryUnchanged ==
    UNCHANGED <<call, limiter, store, asm, handled, client, vercel, connections, closed,
                broken, listeners, writes, emitted, regAt, bcast, result>>

\* the page calls window.errorRecovery.fetchWithRetry(url, options)
FetchWithRetry(url) ==
    /\ Cardinality({i \in DOMAIN recovery.calls : recovery.calls[i].loop = 0}) < MaxFetches
    /\ recovery' = [recovery EXCEPT
                      !.calls = Append(@, fetchWithRetry(url, 0, recovery.isOnline))]
    /\ RecoveryUnchanged

\* fetch() of call i settles: with an ok response the call returns it, with
\* another response or a network error the catch block runs
FetchSettles(i, ok) ==
    /\ recovery.calls[i].at = "fetch"
    /\ recovery' = [recovery EXCEPT
                      !.calls[i] = IF ok THEN [@ EXCEPT !.at = "resolved"] ELSE caught(@)]
    /\ RecoveryUnchanged

\* the sleep of call i ends: the next attempt calls fetch without looking at
\* isOnline (attempt > 0)
SleepEnds(i) ==
    /\ recovery.calls[i].at = "sleep"
    /\ recovery' = [recovery EXCEPT
                      !.calls[i] = [@ EXCEPT !.attempt = @ + 1, !.at = "fetch",
                                             !.fetches = @ + 1]]
    /\ RecoveryUnchanged

\* the page calls window.errorRecovery.queueForRetry(url, ...)
QueueForRetry(url) ==
    /\ recovery.queued < MaxQueued
    /\ recovery' = [recovery EXCEPT !.retryQueue = Append(@, [url |-> url]),
                                    !.queued = @ + 1]
    /\ RecoveryUnchanged

\* the fetchWithRetry of loop k has settled and onSuccess or onError has
\* run: the loop goes on to its next item
LoopNext(k) ==
    /\ recovery.loops[k].rest # <<>>
    /\ \A i \in DOMAIN recovery.calls :
          recovery.calls[i].loop = k => settled(recovery.calls[i])
    /\ recovery' = [recovery EXCEPT
                      !.loops[k].rest = Tail(@),
                      !.calls = Append(@, fetchWithRetry(Head(recovery.loops[k].rest).url,
                                                         k, recovery.isOnline))]
    /\ RecoveryUnchanged

\* the browser's online event
Online ==
    /\ ~recovery.isOnline
    /\ recovery' = processRetryQueue([recovery EXCEPT !.isOnline = TRUE])
    /\ RecoveryUnchanged

\* the browser's offline event
Offline ==
    /\ recovery.isOnline
    /\ recovery' = [recovery EXCEPT !.isOnline = FALSE]
    /\ RecoveryUnchanged

InitRecovery ==
    /\ vercel = FALSE
    /\ connections = EmptyMap
    /\ closed = [s \in Sinks |-> FALSE]
    /\ broken = [s \in Sinks |-> FALSE]
    /\ listeners = [s \in Sinks |-> <<>>]
    /\ writes = [s \in Sinks |-> <<>>]
    /\ emitted = <<>>
    /\ regAt = [s \in Sinks |-> 0]
    /\ bcast = NoBcast
    /\ result = [op |-> "init", id |-> NoId, type |-> NoId, status |-> NoId]
    /\ handled = [s \in Sinks |-> 0]
    /\ client = [s \in Sinks |-> "watching"]
    /\ store = NoStore
    /\ asm = NoAssembly
    /\ call = NoCall
    /\ limiter = NoLimiter
    /\ \E onLine \in BOOLEAN :
          recovery = [isOnline |-> onLine, retryQueue |-> <<>>, calls |-> <<>>,
                      loops |-> <<>>, queued |-> 0]

NextRecovery ==
    \/ \E url \in Urls : FetchWithRetry(url)
    \/ \E i \in DOMAIN recovery.calls, ok \in BOOLEAN : FetchSettles(i, ok)
    \/ \E i \in DOMAIN recovery.calls : SleepEnds(i)
    \/ \E url \in Urls : QueueForRetry(url)
    \/ \E k \in DOMAIN recovery.loops : LoopNext(k)
    \/ Online
    \/ Offline

SpecRecovery == InitRecovery /\ [][NextRecovery]_vars

\* ------------------------------------------------ the page after a done event
\* The timer set by handleSSEEvent fires and the page asks the user whether
\* to close the live monitor; only on a yes closeLiveMonitor closes the
\* EventSource.  The server never ends a response itself.
DoneTimer(res, answer) ==
    /\ client[res] = "timer"
    /\ client' = [client EXCEPT ![res] = IF answer THEN "closing" ELSE "kept"]
    /\ UNCHANGED <<call, limiter, recovery, handled, store, asm, vercel, connections, closed, broken, listeners, writes,
                   emitted, regAt, bcast, result>>

\* the close of an EventSource reaches the server
ClientClosed(res) ==
    /\ client[res] = "closing"
    /\ SinkClose(res)

InitDone == Init /\ ~vercel

NextDone ==
    \/ \E recordId \in RecordIds, res \in Sinks : GetEvents(recordId, res)
    \/ \E recordId \in RecordIds, event_type \in {"lane_start", "done"} :
          PostLaneEvent(recordId, event_type, NoId)
    \/ \E res \in Sinks : SinkClose(res)
    \/ \E res \in Sinks, answer \in BOOLEAN : DoneTimer(res, answer)

\* the timers of the page fire and a closed EventSource reaches the server;
\* nothing makes a user or a network close a stream
SpecDone ==
    /\ InitDone
    /\ [][NextDone]_vars
    /\ WF_vars(\E res \in Sinks, answer \in BOOLEAN : DoneTimer(res, answer))
    /\ WF_vars(\E res \in Sinks : ClientClosed(res))

\* ------------------------------------------------ a close handled once more
\* the 'close' listeners of res run a second time
SinkCloseAgain(res) ==
    /\ handled[res] = 1
    /\ connections' = emitClose(listeners[res], res, connections, 1)
    /\ handled' = [handled EXCEPT ![res] = @ + 1]
    /\ UNCHANGED <<call, limiter, recovery, client, store, asm, vercel, closed, broken, listeners, writes, emitted,
                   regAt, bcast, result>>

NextCloseAgain ==
    \/ \E recordId \in RecordIds, res \in Sinks : GetEvents(recordId, res)
    \/ \E recordId \in RecordIds : PostLaneEvent(recordId, "lane_start", NoId)
    \/ \E res \in Sinks : SinkClose(res)
    \/ \E res \in Sinks : SinkCloseAgain(res)

SpecCloseAgain == Init /\ [][NextCloseAgain]_vars


\* ------------------------------------------- sendEvent with re-entrant sinks
\* The same sendEvent, one forEach callback at a time: while a sink's write
\* is running it may emit 'close' synchronously, so close handlers (and
\* registrations) run inside a callback and change the array the forEach is
\* iterating.  Outside a write no other code runs until sendEvent returns.

\* the array object the forEach iterates: connections.get(recordId) at call
\* time, which stays the map's list until the entry is deleted
bcastArray == IF bcast.live THEN connections[bcast.id] ELSE <<>>

\* sendEvent called by the webhook: lookup, guard, start of clients.forEach
SendEventBegin(recordId, event_type, data_type) ==
    /\ ~vercel
    /\ ~bcast.active
    /\ event_type \in WebhookCases
    /\ data_type # NoId => event_type = "progress"
    /\ Len(emitted) < MaxEvents
    /\ emitted' = Append(emitted, recordId)
    /\ IF ~mapHas(connections, recordId) \/ Len(connections[recordId]) = 0
       THEN /\ bcast' = bcast
            /\ result' = [op |-> "webhook", id |-> recordId, type |-> event_type, status |-> "success"]
       ELSE /\ bcast' = [active |-> TRUE, id |-> recordId,
                         event |-> newEvent(emitType(event_type, data_type)),
                         idx |-> 1, len |-> Len(connections[recordId]), live |-> TRUE,
                         inWrite |-> FALSE,
                         snapshot |-> connections[recordId]]
            /\ result' = [op |-> "webhook", id |-> recordId, type |-> event_type, status |-> "pending"]
    /\ UNCHANGED <<call, limiter, recovery, handled, client, store, asm, vercel, connections, closed, broken, listeners, writes, regAt>>

\* a callback of clients.forEach begins: index idx is visited when it is still
\* inside the array (the length to visit was fixed when forEach started), and
\* res.write is called on the sink found there
ForEachCall ==
    /\ bcast.active
    /\ ~bcast.inWrite
    /\ bcast.idx <= bcast.len
    /\ IF bcast.idx <= Len(bcastArray)
       THEN /\ writes' = tryWrite(bcastArray[bcast.idx], bcast.event, writes).w
            /\ bcast' = [bcast EXCEPT !.inWrite = TRUE]
       ELSE /\ writes' = writes
            /\ bcast' = [bcast EXCEPT !.idx = @ + 1]
    /\ UNCHANGED <<call, limiter, recovery, handled, client, store, asm, vercel, connections, closed, broken, listeners, emitted, regAt, result>>

\* res.write returns (or its exception is caught): on to the next index
ForEachReturn ==
    /\ bcast.active
    /\ bcast.inWrite
    /\ bcast' = [bcast EXCEPT !.inWrite = FALSE, !.idx = @ + 1]
    /\ UNCHANGED <<call, limiter, recovery, handled, client, store, asm, vercel, connections, closed, broken, listeners, writes, emitted, regAt, result>>

\* forEach is over: sendEvent returns and the webhook answers
SendEventEnd ==
    /\ bcast.active
    /\ ~bcast.inWrite
    /\ bcast.idx > bcast.len
    /\ bcast' = [bcast EXCEPT !.active = FALSE]
    /\ result' = [result EXCEPT !.status = "success"]
    /\ UNCHANGED <<call, limiter, recovery, handled, client, store, asm, vercel, connections, closed, broken, listeners, writes, emitted, regAt>>

InitReentrant == Init /\ ~vercel

NextReentrant ==
    \/ \E recordId \in RecordIds, res \in Sinks : GetEvents(recordId, res)
    \/ \E recordId \in RecordIds, event_type \in EventTypeInputs, data_type \in DataTypeInputs :
          SendEventBegin(recordId, event_type, data_type)
    \/ ForEachCall
    \/ ForEachReturn
    \/ SendEventEnd
    \/ \E res \in Sinks : SinkClose(res)
    \/ \E res \in Sinks : SinkBreak(res)

SpecReentrant == InitReentrant /\ [][NextReentrant]_vars

\* ------------------------------------------------------- claim vocabulary
\* the sinks of a list
Members(arr) == {arr[k] : k \in DOMAIN arr}

\* the sinks the registry holds
Held == UNION {Members(connections[id]) : id \in DOMAIN connections}

\* the events of the write calls made on res since sendEvent call number from
EventsAfter(res, from) ==
    LET sel == SelectSeq(writes[res], LAMBDA x : x.event.n > from)
    IN  [k \in DOMAIN sel |-> sel[k].event]

\* the call numbers, in order, of the sendEvent calls made for id after call number from
CallsAfter(id, from) ==
    SelectSeq([k \in 1..Len(emitted) |-> k], LAMBDA k : k > from /\ emitted[k] = id)

Max(a, b) == IF a >= b THEN a ELSE b

\* a step of an HTTP handler (a close changes closed, a break changes broken)
HandlerStep == closed' = closed /\ broken' = broken

\* a step in which the webhook called sendEvent for id
EmitStep(id) ==
    /\ HandlerStep
    /\ result'.op = "webhook"
    /\ result'.id = id
    /\ emitted' = Append(emitted, id)

\* the number of write calls made on res with the event of call number n
WritesOf(res, n) == Cardinality({k \in DOMAIN writes[res] : writes[res][k].event.n = n})


\* ------------------------------------------------------------------ claims

\* C1 (as claimed): a registration appends res to the list of its id and
\* writes the connected event to res only; the write logs of all other sinks
\* stay as they were.
C1_ConnectedToNewSinkOnly ==
    [][\A res \in Sinks : \A id \in RecordIds :
          (HandlerStep /\ regAt[res] = 0 /\ regAt'[res] # 0 /\ result'.id = id) =>
             /\ connections'[id] =
                   Append(IF mapHas(connections, id) THEN connections[id] ELSE <<>>, res)
             /\ Cardinality({k \in DOMAIN writes'[res] :
                                writes'[res][k].event.n = regAt'[res]}) = 1
             /\ \A other \in Sinks \ {res} : writes'[other] = writes[other]]_vars

\* C2 (as claimed): the registry never holds a sink whose close signal has occurred.
C2_NoClosedSinkHeld ==
    \A res \in Held : ~closed[res]

C4_BothReceiveInOrder ==
    \A id \in DOMAIN connections : \A s, t \in Members(connections[id]) :
        s # t =>
            LET from == Max(regAt[s], regAt[t])
            IN  /\ EventsAfter(s, from) = EventsAfter(t, from)
                /\ [k \in DOMAIN EventsAfter(s, from) |-> EventsAfter(s, from)[k].n]
                      = CallsAfter(id, from)

\* two sinks held for one id, and at least two later events written to both
C4_Witness ==
    \E id \in DOMAIN connections : \E s, t \in Members(connections[id]) :
        /\ s # t
        /\ Len(EventsAfter(s, Max(regAt[s], regAt[t]))) >= 2
        /\ EventsAfter(s, Max(regAt[s], regAt[t])) = EventsAfter(t, Max(regAt[s], regAt[t]))
        /\ \A k \in DOMAIN writes[s] : writes[s][k].ok
        /\ \A k \in DOMAIN writes[t] : writes[t][k].ok

\* C5: nothing is written to a sink before its registration; the first write
\* to a registered sink is the connected event of its own registration, and
\* no event of an earlier sendEvent call is ever written to it.
C5_NoReplay ==
    \A res \in Sinks :
        IF regAt[res] = 0 THEN writes[res] = <<>>
        ELSE /\ writes[res] # <<>>
             /\ writes[res][1].event = [type |-> "connected", n |-> regAt[res]]
             /\ \A k \in DOMAIN writes[res] : writes[res][k].event.n >= regAt[res]

\* a sink registered for an id after a webhook event had been written to
\* another sink of that id, and written a later event as well
C5_Witness ==
    \E res, other \in Sinks :
        /\ regAt[res] > 1
        /\ Len(writes[res]) >= 2
        /\ \E k \in DOMAIN writes[other] :
              /\ writes[other][k].event.n < regAt[res]
              /\ writes[other][k].event.type # "connected"
              /\ emitted[writes[other][k].event.n] = emitted[regAt[res]]

\* C6: a webhook emit for an id without a map entry answers success, makes no
\* write call on any sink and leaves the connection map as it was.
C6_EmitToNobody ==
    [][\A id \in RecordIds :
          (EmitStep(id) /\ ~mapHas(connections, id)) =>
             /\ result'.status = "success"
             /\ writes' = writes
             /\ connections' = connections
             /\ bcast' = bcast]_vars

\* the last sendEvent call came from the webhook, no sink was written its
\* event, its id has no entry, and a sink is held for the other id
C6_Witness ==
    /\ result.op = "webhook"
    /\ result.status = "success"
    /\ result.type \in WebhookCases
    /\ emitted # <<>>
    /\ emitted[Len(emitted)] = result.id
    /\ \A res \in Sinks : WritesOf(res, Len(emitted)) = 0
    /\ ~mapHas(connections, result.id)
    /\ Held # {}

\* C7: a webhook emit for an id that has a sink whose write throws makes one
\* write call on every sink of the list (it succeeds on the sinks that are
\* not broken), answers success, and leaves the connection map as it was;
\* and a sink leaves the registry only in the step in which it closes.
C7_FailedWriteIsolated ==
    [][/\ \A id \in RecordIds :
            (/\ EmitStep(id)
             /\ mapHas(connections, id)
             /\ \E res \in Members(connections[id]) : broken[res]) =>
               /\ \A res \in Members(connections[id]) :
                     /\ Len(writes'[res]) = Len(writes[res]) + 1
                     /\ writes'[res][Len(writes'[res])].event.n = Len(emitted')
                     /\ writes'[res][Len(writes'[res])].ok = ~broken[res]
               /\ result'.status = "success"
               /\ connections' = connections
       /\ \A res \in Held : res \notin Held' => (~closed[res] /\ closed'[res])]_vars

\* the last webhook event failed on a sink and was written to a sink behind it
C7_Witness ==
    /\ result.op = "webhook"
    /\ result.status = "success"
    /\ mapHas(connections, result.id)
    /\ \E i, j \in DOMAIN connections[result.id] :
          /\ i < j
          /\ \E k \in DOMAIN writes[connections[result.id][i]] :
                /\ writes[connections[result.id][i]][k].event.n = Len(emitted)
                /\ ~writes[connections[result.id][i]][k].ok
          /\ \E k \in DOMAIN writes[connections[result.id][j]] :
                /\ writes[connections[result.id][j]][k].event.n = Len(emitted)
                /\ writes[connections[result.id][j]][k].ok
          /\ emitted[Len(emitted)] = result.id

\* C8 (as claimed): no event whose type is outside the catalog is written to a sink.
C8_OnlyCatalogTypesWritten ==
    \A res \in Sinks : \A k \in DOMAIN writes[res] :
        writes[res][k].event.type \in EventCatalog

\* C9: a webhook call whose event_type is none of the switch cases is
\* answered as a success, makes no write call, calls sendEvent for nobody
\* and leaves the connection map as it was.
C9_UnknownTypeAcknowledged ==
    [][(HandlerStep /\ result'.op = "webhook" /\ result'.type \notin WebhookCases) =>
          /\ result'.status \in {"success", "ok"}
          /\ writes' = writes
          /\ emitted' = emitted
          /\ connections' = connections]_vars

\* an unknown event_type was acknowledged while a sink was held for its id
C9_Witness ==
    /\ result.op = "webhook"
    /\ result.type \notin WebhookCases
    /\ result.status = "success"
    /\ mapHas(connections, result.id)
    /\ \A res \in Members(connections[result.id]) : ~closed[res] /\ ~broken[res]

\* C10: no recordId maps to an empty list.
C10_NoEmptyList ==
    \A id \in DOMAIN connections : Len(connections[id]) > 0

\* a registered sink has closed, its handler removed it as the last
\* subscriber, and the entry of its id is gone
C10_Witness ==
    \E res \in Sinks :
        /\ regAt[res] # 0
        /\ closed[res]
        /\ res \notin Held
        /\ ~mapHas(connections, emitted[regAt[res]])


\* the list of id in a connection map, empty when id has no entry
ListOf(conns, id) == IF mapHas(conns, id) THEN conns[id] ELSE <<>>

\* a list without res
Without(arr, res) == SelectSeq(arr, LAMBDA x : x # res)

\* the recordId res was registered for
IdOf(res) == emitted[regAt[res]]

\* C11: when the close listeners of a sink run a second time, the connection
\* map stays exactly as it was.
C11_UnregisterIdempotent ==
    [][\A res \in Sinks :
          (handled[res] = 1 /\ handled'[res] = 2) => connections' = connections]_vars

\* a close was handled twice while the id of the sink has a list again, made
\* of sinks that registered later
C11_Witness ==
    \E res \in Sinks :
        /\ handled[res] = 2
        /\ mapHas(connections, IdOf(res))
        /\ \A other \in Members(connections[IdOf(res)]) : regAt[other] > regAt[res]

\* C12: the close of a sink takes this sink, and nothing else, out of every
\* list, keeps the order of the others and makes no write; and once a close
\* has been handled, a webhook event for an id is still written to every
\* sink that is held for it.
C12_CloseRemovesOnlyItself ==
    [][/\ \A res \in Sinks :
            (~closed[res] /\ closed'[res]) =>
               /\ \A id \in RecordIds :
                     ListOf(connections', id) = Without(ListOf(connections, id), res)
               /\ writes' = writes
       /\ \A id \in RecordIds :
            (EmitStep(id) /\ \E res \in Sinks : handled[res] >= 1) =>
               \A other \in Members(ListOf(connections, id)) :
                  /\ Len(writes'[other]) = Len(writes[other]) + 1
                  /\ writes'[other][Len(writes'[other])].event.n = Len(emitted')]_vars

\* a sink registered first for an id has closed and was removed; a sink that
\* registered after it for the same id is still held and was written the
\* last webhook event, which the closed sink was not
C12_Witness ==
    \E res, other \in Sinks :
        /\ handled[res] = 1
        /\ res \notin Held
        /\ other \in Held
        /\ regAt[other] > regAt[res]
        /\ IdOf(other) = IdOf(res)
        /\ result.op = "webhook"
        /\ WritesOf(other, Len(emitted)) = 1
        /\ WritesOf(res, Len(emitted)) = 0
        /\ Len(emitted) > regAt[other]


\* a done event has been written to res
GotDone(res) == \E k \in DOMAIN writes[res] : writes[res][k].event.type = "done"

\* C13 (as claimed): once a done event has been written to a held sink, the
\* sink eventually leaves the registry, whatever the user of the page does.
C13_DoneClosesChannel ==
    \A res \in Sinks : (res \in Held /\ GotDone(res)) ~> (res \notin Held)


\* ------------------------------------------------------ claims on the lanes
\* the sub-lane keys in lane-major, sub-lane-minor order
AllLaneKeys == [n \in 1..(Len(lanes) * Len(subLanes)) |->
                   lanes[((n - 1) \div Len(subLanes)) + 1] \o subLanes[((n - 1) % Len(subLanes)) + 1]]

\* the lane letter of the n-th key
LaneOfKey(n) == lanes[((n - 1) \div Len(subLanes)) + 1]

InPlan(key) == \E k \in DOMAIN asm.lanes : asm.lanes[k] = key

\* a prompt linkage that is there and not empty
NonEmptyLinkage(v) == lengthPositive(v)

\* C15 (as claimed): with a workflow record, a sub-lane is in the plan iff the
\* toggle of its lane is truthy and a non-empty prompt linkage exists on the
\* primary record or, when the primary value is absent or empty, on the
\* workflow record under the sub-lane key.
C15_ActiveIffToggleAndLinkage ==
    asm.status = "planned" =>
        \A n \in DOMAIN AllLaneKeys :
            InPlan(AllLaneKeys[n]) <=>
               /\ truthy(get(store.primary.record.fields, branchToggleField(LaneOfKey(n))))
               /\ \/ NonEmptyLinkage(get(store.primary.record.fields, "WF - " \o AllLaneKeys[n]))
                  \/ /\ ~NonEmptyLinkage(get(store.primary.record.fields, "WF - " \o AllLaneKeys[n]))
                     /\ NonEmptyLinkage(get(store.workflow.record.fields, AllLaneKeys[n]))

\* C16: no sub-lane of a lane whose toggle is falsy is in the plan.
C16_ToggleOffNoSubLane ==
    asm.status = "planned" =>
        \A n \in DOMAIN AllLaneKeys :
            ~truthy(get(store.primary.record.fields, branchToggleField(LaneOfKey(n))))
               => ~InPlan(AllLaneKeys[n])

\* lane A is off, both records link a prompt for A1.1, and lane B is planned
C16_Witness ==
    /\ asm.status = "planned"
    /\ ~truthy(get(store.primary.record.fields, branchToggleField("A")))
    /\ NonEmptyLinkage(get(store.primary.record.fields, "WF - A1.1"))
    /\ NonEmptyLinkage(get(store.workflow.record.fields, "A1.1"))
    /\ asm.lanes # <<>>

\* C18: the plan is the lane-major, sub-lane-minor list of keys with some
\* keys left out: it lists keys in that order and none twice.
C18_LaneMajorOrder ==
    asm.status = "planned" =>
        asm.lanes = SelectSeq(AllLaneKeys, LAMBDA key : InPlan(key))

\* a plan with sub-lanes of two lanes, two of them of the first lane
C18_Witness ==
    /\ asm.status = "planned"
    /\ Len(asm.lanes) >= 3
    /\ asm.lanes[1] = "A1.1"
    /\ asm.lanes[2] = "A2.1"
    /\ asm.lanes[3] = "B1.1"


\* --------------------------------------------------- claims on the assembly
Returned == asm.status \in {"resolved", "rejected"}

\* the store call for linked record f was made and failed
FetchFailed(f) == Issued(f) /\ Settled(f) /\ ~store[f].ok

\* C14 (as claimed): a failed fetch of the primary record rejects the call
\* with an error that wraps the store's error; a failed fetch of the workflow,
\* the entity or the content-type record leaves the call resolving, with the
\* defaults in the section of the failed record.
C14_PrimaryFatalLinkedDegrade ==
    Returned =>
        /\ ~store.primary.ok =>
              asm.status = "rejected" /\ asm.error = wrap(store.primary.message)
        /\ (store.primary.ok /\ \E f \in LinkedFetches : FetchFailed(f)) =>
              /\ asm.status = "resolved"
              /\ FetchFailed("workflow") => asm.context.lane_plan = <<>>
              /\ FetchFailed("entity") =>
                    asm.context.entity.id = Null /\ asm.context.entity.name = Str("Unknown")
              /\ FetchFailed("contentType") =>
                    /\ asm.context.content_type.id = Null
                    /\ asm.context.content_type.name = Str("Unknown")
                    /\ asm.context.content_type.output_contract.fields = List(<<>>)

\* C17: a result assembled without a workflow record has an empty lane plan.
C17_NoWorkflowEmptyPlan ==
    (asm.status = "resolved" /\ asm.got.workflow = Null) => asm.context.lane_plan = <<>>

\* the workflow fetch failed while lane A is on and the primary record links
\* a prompt for A1.1
C17_Witness ==
    /\ asm.status = "resolved"
    /\ FetchFailed("workflow")
    /\ truthy(get(asm.got.initiator.fields, branchToggleField("A")))
    /\ lengthPositive(get(asm.got.initiator.fields, "WF - A1.1"))

Before(k, op, f) == \E j \in 1..(k - 1) : asm.log[j] = [op |-> op, f |-> f]

C20_MissingContentTypeDefaults ==
    (asm.status = "resolved" /\ asm.got.contentType = Null) =>
        LET contract == asm.context.content_type.output_contract
        IN  /\ contract.fields = List(<<>>)
            /\ "destination_table" \in DOMAIN contract
            /\ truthy(contract.destination_table)


\* the top-level keys of the object literal of step 9
UnifiedContextKeys ==
    {"initiator_id", "timestamp", "content_type", "entity", "audience", "research", "tools",
     "platform", "lane_plan", "prior_steps", "rules", "context"}

\* C21: every context of a resolved assembly has the same top-level keys,
\* whichever linked records are missing or failed to load, and none of them
\* is undefined.
C21_SameTopLevelKeys ==
    asm.status = "resolved" =>
        /\ DOMAIN asm.context = UnifiedContextKeys
        /\ \A k \in {"content_type", "entity"} : asm.context[k] # Undef

\* a context assembled without a workflow, an entity and a content type
C21_Witness ==
    /\ asm.status = "resolved"
    /\ asm.got.workflow = Null /\ asm.got.entity = Null /\ asm.got.contentType = Null
    /\ Skipped("workflow") /\ FetchFailed("entity")


\* the list a stored JSON text holds, empty when the record or the field is
\* missing, the text does not parse or it holds no list
StoredList(record, name) ==
    LET text == get(fieldsOf(record), name)
    IN  IF "of" \in DOMAIN text /\ text.of.t = "array" THEN text.of.items ELSE <<>>

\* C22: the rules of the result are the validators of the content type, each
\* as a rule of type validator with its name and value, followed by the rules
\* of the workflow, nothing left out: the length is the sum of the lengths.
C22_RulesConcatenated ==
    asm.status = "resolved" =>
        LET validators == StoredList(asm.got.contentType, "Validators (JSON)")
            workflowRules == StoredList(asm.got.workflow, "Rules (JSON)")
            rules == asm.context.rules
        IN  /\ Len(rules) = Len(validators) + Len(workflowRules)
            /\ \A k \in DOMAIN validators :
                  rules[k] = Obj([type |-> "validator", name |-> validators[k].props.name,
                                  value |-> validators[k].props.value])
            /\ \A k \in DOMAIN workflowRules : rules[Len(validators) + k] = workflowRules[k]

\* the same rule comes from the content type and from the workflow and is
\* listed twice
C22_Witness ==
    /\ asm.status = "resolved"
    /\ Len(asm.context.rules) = 2
    /\ asm.context.rules[1] = asm.context.rules[2]
    /\ StoredList(asm.got.contentType, "Validators (JSON)") # <<>>
    /\ StoredList(asm.got.workflow, "Rules (JSON)") # <<>>


\* a stored text that JSON.parse rejects
Unparsable(record, name) ==
    LET text == get(fieldsOf(record), name)
    IN  text.t = "string" /\ text.s # "" /\ "of" \notin DOMAIN text

\* C23 (as claimed): when the validators text of the content type or the
\* rules text of the workflow does not parse, the call resolves and the text
\* contributes no rule to the result.
C23_UnparsableIsAbsent ==
    (Returned /\ store.primary.ok) =>
        /\ Unparsable(asm.got.contentType, "Validators (JSON)") =>
              /\ asm.status = "resolved"
              /\ asm.context.rules = StoredList(asm.got.workflow, "Rules (JSON)")
        /\ Unparsable(asm.got.workflow, "Rules (JSON)") =>
              /\ asm.status = "resolved"
              /\ Len(asm.context.rules) = Len(StoredList(asm.got.contentType, "Validators (JSON)"))

\* C30 (as claimed): once the primary record has been fetched the call
\* resolves, whatever the linked records hold.
C30_LinkedContentNeverFails ==
    (Returned /\ store.primary.ok) => asm.status = "resolved"


\* C24 (as claimed): the context of a resolved assembly carries an
\* idempotency key, at the top level or in a meta section.
C24_CarriesIdempotencyKey ==
    asm.status = "resolved" =>
        \/ "idempotency_key" \in DOMAIN asm.context
        \/ /\ "meta" \in DOMAIN asm.context
           /\ "idempotency_key" \in DOMAIN asm.context.meta


\* ------------------------------------------------------- claims on getField
\* the positions of the alias list whose name is an own key of the record
\* with a value that is neither null nor undefined
Matches(fields, aliasList) ==
    {k \in DOMAIN aliasList :
        /\ aliasList[k] \in DOMAIN fields.props
        /\ fields.props[aliasList[k]] \notin {Null, Undef}}

\* C25: getField returns the value under the first alias that is an own key
\* with a value other than null and undefined, and undefined when there is no
\* such alias, no record, or no alias list.
C25_FirstPresentAlias ==
    call.status = "returned" =>
        LET R == call.fields
            L == call.aliasList
        IN  IF R.t = "object" /\ L.t = "array" /\ Matches(R, L.items) # {}
            THEN LET first == CHOOSE k \in Matches(R, L.items) :
                                 \A j \in Matches(R, L.items) : k <= j
                 IN  call.value = R.props[L.items[first]]
            ELSE call.value = Undef

\* the first alias is missing or null, the second holds a falsy value, which
\* is returned
C25_Witness ==
    /\ call.status = "returned"
    /\ call.fields.t = "object" /\ call.aliasList.t = "array"
    /\ Len(call.aliasList.items) = 2
    /\ Matches(call.fields, call.aliasList.items) = {2}
    /\ ~truthy(call.value) /\ call.value \notin {Null, Undef}


\* ---------------------------------------------------- claims on lane_finish
\* the first PreviewLength characters of an output, the empty string for none
PreviewOf(output) ==
    IF output = Undef THEN Chars(<<>>)
    ELSE Chars([k \in 1..(IF Len(output.chars) < PreviewLength THEN Len(output.chars)
                          ELSE PreviewLength) |-> output.chars[k]])

\* C26: a lane_finish webhook for an id puts exactly one message on every
\* working sink registered for that id; its decoded body has type
\* lane_finish, the lane of the webhook and the first 200 characters of the
\* output as preview (the empty string without an output).
C26_LaneFinishPreview ==
    [][(EmitStep(result'.id) /\ result'.type = "lane_finish" /\ "output" \in DOMAIN result') =>
          \A s \in Members(ListOf(connections, result'.id)) :
             ~broken[s] =>
                /\ Len(writes'[s]) = Len(writes[s]) + 1
                /\ LET m == writes'[s][Len(writes'[s])]
                   IN  /\ m.ok
                       /\ m.event.type = "lane_finish"
                       /\ result'.lane # Undef => m.event.lane = result'.lane
                       /\ m.event.output_preview = PreviewOf(result'.output)]_vars

\* a sink has received the preview of an output longer than the preview
C26_Witness ==
    /\ result.op = "webhook" /\ result.type = "lane_finish" /\ "output" \in DOMAIN result
    /\ result.output # Undef
    /\ Len(result.output.chars) > PreviewLength
    /\ \E s \in Members(ListOf(connections, result.id)) :
          /\ writes[s] # <<>>
          /\ LET m == writes[s][Len(writes[s])]
             IN  /\ m.ok
                 /\ m.event.type = "lane_finish"
                 /\ "lane" \in DOMAIN m.event
                 /\ m.event.lane = Str("A1.1")
                 /\ Len(m.event.output_preview.chars) = PreviewLength


\* ------------------------------------------------ claims on the rate limiter
\* the calls answered true for the key of granted call k in the window of
\* windowMs that ends with it
GrantedInWindow(k) ==
    {j \in DOMAIN limiter.granted :
        /\ limiter.granted[j].key = limiter.granted[k].key
        /\ limiter.granted[j].timestamp > limiter.granted[k].timestamp - windowMs
        /\ limiter.granted[j].timestamp <= limiter.granted[k].timestamp}

\* C27 (as claimed): over any mix of keys, no window of windowMs holds more
\* than maxRequests calls answered true for one key.
C27_AtMostMaxPerWindow ==
    \A k \in DOMAIN limiter.granted : Cardinality(GrantedInWindow(k)) <= maxRequests


\* C28: a request issued through fetchWithRetry while isOnline is false is
\* placed in the retry queue, and the online event takes every queued
\* request out of the queue and sends it: the first one at once, the others
\* left to the loop that the event started
IssuedOffline(r, rNew) ==
    {i \in DOMAIN rNew.calls \ DOMAIN r.calls : rNew.calls[i].loop = 0 /\ rNew.calls[i].offline}

C28_OfflineRequestsQueued ==
    [][ /\ \A i \in IssuedOffline(recovery, recovery') :
              \E j \in DOMAIN recovery'.retryQueue :
                 recovery'.retryQueue[j].url = recovery'.calls[i].url
        /\ (~recovery.isOnline /\ recovery'.isOnline /\ recovery.retryQueue # <<>>) =>
              /\ recovery'.retryQueue = <<>>
              /\ Len(recovery'.loops) = Len(recovery.loops) + 1
              /\ LET c == recovery'.calls[Len(recovery'.calls)]
                 IN  /\ c.url = Head(recovery.retryQueue).url
                     /\ c.fetches = 1
                     /\ recovery'.loops[Len(recovery'.loops)].rest = Tail(recovery.retryQueue)
      ]_vars


\* the writes a step adds to sink res, as positions of writes'[res]
NewWrites(res) == (Len(writes[res]) + 1)..Len(writes'[res])

\* C29: every message a step writes to a sink belongs to a sendEvent call
\* made for the id the sink registered under, and the close of a sink leaves
\* the list of every other id as it was.
C29_IdsIsolated ==
    [][\A res \in Sinks :
          /\ \A k \in NewWrites(res) :
                /\ regAt'[res] # 0
                /\ emitted'[writes'[res][k].event.n] = emitted'[regAt'[res]]
          /\ (~closed[res] /\ closed'[res]) =>
                \A id \in RecordIds :
                   (regAt[res] = 0 \/ id # IdOf(res)) =>
                      ListOf(connections', id) = ListOf(connections, id)]_vars

\* two sinks registered under different ids; a webhook event for the id of
\* the first was then written to the first and not to the second, and the
\* second has closed while the first is still held
C29_Witness ==
    \E res, other \in Sinks :
        /\ regAt[res] # 0 /\ regAt[other] # 0
        /\ IdOf(res) # IdOf(other)
        /\ result.op = "webhook"
        /\ Len(emitted) > regAt[res] /\ Len(emitted) > regAt[other]
        /\ emitted[Len(emitted)] = IdOf(res)
        /\ WritesOf(res, Len(emitted)) = 1
        /\ WritesOf(other, Len(emitted)) = 0
        /\ handled[other] = 1
        /\ res \in Held

====
